---- MODULE Spec2Model ----
(***************************************************************************)
(* A model of task01.py: the Field/Name/Phone value classes, Record,       *)
(* AddressBook, and the module-level demonstration driver.                 *)
(*                                                                         *)
(* Python strings are TLA+ strings (TLC evaluates Len, SubSeq and \o on    *)
(* them).  Objects of class Field are records [value |-> s].  Record       *)
(* objects live in `heap` and are named by references [id |-> i], so that  *)
(* two names for one Record object share its mutations.                    *)
(***************************************************************************)
EXTENDS Integers, Sequences, FiniteSets, TLC

VARIABLES
    heap,         \* id -> Record object, or NoRec for a free cell
    data,         \* AddressBook.data: insertion-ordered <<[key, value]>>
    env,          \* the callers' variables: name -> reference or None
    found_phone,  \* the driver's variable found_phone
    out,          \* the lines printed so far
    pc,           \* who calls next: the driver at a line of task01.py, a caller
                  \* using the book ("book"), a single Record ("record") or
                  \* Phone alone ("phone")
    last,         \* the last call: operation, arguments, calling line, outcome,
                  \* and the state before it
    linked        \* the variables holding a reference that find returned or
                  \* add_record was given, with no add_record or delete for
                  \* that name since

vars == <<heap, data, env, found_phone, out, pc, last, linked>>

(***************************************************************************)
(* Bounds of the model.                                                    *)
(***************************************************************************)
MaxPhones == 2       \* phones a caller using a single Record gives it
MaxBookPhones == 1   \* phones a caller using the book gives a Record
MaxRecords == 3      \* Record objects alive at once

PhoneLen == 10

\* U+00B2 SUPERSCRIPT TWO, a character str.isdigit() accepts (this file is
\* UTF-8)
SuperscriptTwo == "²"

RECURSIVE Repeat(_, _)
Repeat(ch, n) == IF n = 0 THEN "" ELSE ch \o Repeat(ch, n - 1)

None == [none |-> TRUE]
NoRec == [free |-> TRUE]

Ids == 1..MaxRecords
Ref(i) == [id |-> i]

(***************************************************************************)
(* Inputs the callers draw their arguments from.                           *)
(***************************************************************************)
NameInputs == {"John", "Jane", ""}
PhoneInputs ==
    {"1234567890", "5555555555", "1112223333", Repeat(SuperscriptTwo, PhoneLen),
     "12345", "12345678ab"}
BookPhoneInputs == {"5555555555", Repeat(SuperscriptTwo, PhoneLen), "12345"}

(***************************************************************************)
(* str.isdigit(): true iff the string is non-empty and every character has *)
(* the Unicode property Numeric_Type=Digit or Numeric_Type=Decimal.  Of    *)
(* the characters the model's inputs use these are the ASCII digits and    *)
(* SUPERSCRIPT TWO (U+00B2).                                               *)
(***************************************************************************)
AsciiDigits == {"0", "1", "2", "3", "4", "5", "6", "7", "8", "9"}
IsDigitChars == AsciiDigits \cup {SuperscriptTwo}

CharAt(s, i) == SubSeq(s, i, i)

isdigit(s) == Len(s) > 0 /\ \A i \in 1..Len(s) : CharAt(s, i) \in IsDigitChars

(***************************************************************************)
(* Constructors.  Each yields [raised, obj]: raised is TRUE when the       *)
(* constructor raises ValueError, and then no object is produced.          *)
(***************************************************************************)
Field(value) == [value |-> value]

Name(value) ==
    IF value = ""
    THEN [raised |-> TRUE, obj |-> None]
    ELSE [raised |-> FALSE, obj |-> Field(value)]

Phone(value) ==
    IF ~isdigit(value) \/ Len(value) # PhoneLen
    THEN [raised |-> TRUE, obj |-> None]
    ELSE [raised |-> FALSE, obj |-> Field(value)]

\* Field.__str__
FieldStr(f) == f.value

(***************************************************************************)
(* Record.  The methods are operators on the phone list; each yields       *)
(* [raised, ret, phones]: whether ValueError was raised, the value         *)
(* returned, and the phone list after the call.                            *)
(***************************************************************************)
\* The position the loop "for p in self.phones: if p.value == phone" stops
\* at: the smallest index whose value is phone, or 0 when the loop runs out.
FirstMatch(phones, phone) ==
    IF \E i \in 1..Len(phones) : phones[i].value = phone
    THEN CHOOSE i \in 1..Len(phones) :
            /\ phones[i].value = phone
            /\ \A j \in 1..(i - 1) : phones[j].value # phone
    ELSE 0

RemoveAt(seq, i) == SubSeq(seq, 1, i - 1) \o SubSeq(seq, i + 1, Len(seq))

add_phone(phones, phone) ==
    LET p == Phone(phone) IN
    IF p.raised
    THEN [raised |-> TRUE, ret |-> None, phones |-> phones]
    ELSE [raised |-> FALSE, ret |-> None, phones |-> Append(phones, p.obj)]

\* remove_phone with "remove every match" in place of "remove p; return"
remove_phone_every_match(phones, phone) ==
    IF FirstMatch(phones, phone) # 0
    THEN [raised |-> FALSE, ret |-> TRUE,
          phones |-> SelectSeq(phones, LAMBDA p : p.value # phone)]
    ELSE [raised |-> FALSE, ret |-> FALSE, phones |-> phones]

remove_phone(phones, phone) ==
    LET i == FirstMatch(phones, phone) IN
    IF i # 0
    THEN [raised |-> FALSE, ret |-> TRUE, phones |-> RemoveAt(phones, i)]
    ELSE [raised |-> FALSE, ret |-> FALSE, phones |-> phones]

\* edit_phone with self.phones.append(Phone(new_phone)) in place of the
\* assignment to self.phones[i]
edit_phone_appends(phones, old_phone, new_phone) ==
    LET i == FirstMatch(phones, old_phone) IN
    IF i # 0
    THEN LET p == Phone(new_phone) IN
         IF p.raised
         THEN [raised |-> TRUE, ret |-> None, phones |-> phones]
         ELSE [raised |-> FALSE, ret |-> TRUE, phones |-> Append(phones, p.obj)]
    ELSE [raised |-> FALSE, ret |-> FALSE, phones |-> phones]

\* edit_phone with Phone(new_phone) constructed before the loop
edit_phone_validates_first(phones, old_phone, new_phone) ==
    LET p == Phone(new_phone)
        i == FirstMatch(phones, old_phone)
    IN IF p.raised
       THEN [raised |-> TRUE, ret |-> None, phones |-> phones]
       ELSE IF i # 0
            THEN [raised |-> FALSE, ret |-> TRUE,
                  phones |-> [phones EXCEPT ![i] = p.obj]]
            ELSE [raised |-> FALSE, ret |-> FALSE, phones |-> phones]

\* edit_phone without the "return True" that ends the loop at the first match
edit_phone_every_match(phones, old_phone, new_phone) ==
    LET i == FirstMatch(phones, old_phone) IN
    IF i # 0
    THEN LET p == Phone(new_phone) IN
         IF p.raised
         THEN [raised |-> TRUE, ret |-> None, phones |-> phones]
         ELSE [raised |-> FALSE, ret |-> TRUE,
               phones |-> [k \in 1..Len(phones) |->
                             IF phones[k].value = old_phone THEN p.obj
                             ELSE phones[k]]]
    ELSE [raised |-> FALSE, ret |-> FALSE, phones |-> phones]

edit_phone(phones, old_phone, new_phone) ==
    LET i == FirstMatch(phones, old_phone) IN
    IF i # 0
    THEN LET p == Phone(new_phone) IN
         IF p.raised
         THEN [raised |-> TRUE, ret |-> None, phones |-> phones]
         ELSE [raised |-> FALSE, ret |-> TRUE,
               phones |-> [phones EXCEPT ![i] = p.obj]]
    ELSE [raised |-> FALSE, ret |-> FALSE, phones |-> phones]

find_phone(phones, phone) ==
    LET i == FirstMatch(phones, phone) IN
    IF i # 0
    THEN [raised |-> FALSE, ret |-> phones[i], phones |-> phones]
    ELSE [raised |-> FALSE, ret |-> None, phones |-> phones]

\* str.join
RECURSIVE join(_, _)
join(sep, strs) ==
    IF Len(strs) = 0 THEN ""
    ELSE IF Len(strs) = 1 THEN strs[1]
    ELSE strs[1] \o sep \o join(sep, Tail(strs))

\* Record.__str__ with ", " for the separator "; "
RecordStr_comma(rec) ==
    "Contact name: " \o rec.name.value \o ", phones: "
        \o join(", ", [i \in 1..Len(rec.phones) |-> rec.phones[i].value])

\* Record.__str__
RecordStr(rec) ==
    "Contact name: " \o rec.name.value \o ", phones: "
        \o join("; ", [i \in 1..Len(rec.phones) |-> rec.phones[i].value])

(***************************************************************************)
(* AddressBook.  `d` is the dict self.data, kept in insertion order.       *)
(***************************************************************************)
KeyIndex(d, key) ==
    IF \E i \in 1..Len(d) : d[i].key = key
    THEN CHOOSE i \in 1..Len(d) : d[i].key = key
    ELSE 0

\* SetItem on a list of pairs that is appended to without a look-up
SetItem_appends(d, key, value) == Append(d, [key |-> key, value |-> value])

\* self.data[key] = value: a present key keeps its place, a new one is last
SetItem(d, key, value) ==
    LET i == KeyIndex(d, key) IN
    IF i # 0
    THEN [d EXCEPT ![i] = [key |-> key, value |-> value]]
    ELSE Append(d, [key |-> key, value |-> value])

\* add_record storing a copy of the record (copy.deepcopy) where the model
\* has a free cell for one
add_record_copy(d, h, record) ==
    LET free == {i \in Ids : h[i] = NoRec} IN
    IF free = {}
    THEN [data |-> SetItem(d, h[record.id].name.value, record), heap |-> h]
    ELSE LET k == CHOOSE i \in free : \A j \in free : i <= j IN
         [data |-> SetItem(d, h[record.id].name.value, Ref(k)),
          heap |-> [h EXCEPT ![k] = h[record.id]]]

\* yields the dict and the heap after the call
add_record(d, h, record) ==
    [data |-> SetItem(d, h[record.id].name.value, record), heap |-> h]

find(d, name) ==
    LET i == KeyIndex(d, name) IN
    IF i # 0 THEN d[i].value ELSE None

\* delete that removes the entry from a copy of the dict: self.data is kept
delete_keeps(d, name) == d

delete(d, name) ==
    LET i == KeyIndex(d, name) IN
    IF i # 0 THEN RemoveAt(d, i) ELSE d

(***************************************************************************)
(* Callers.  A call is [op, v, args]: the operation, the variable it is    *)
(* made on or assigned to ("book" for a call on the book alone), and the   *)
(* string arguments.  The driver (lines 138-158) makes a fixed sequence of *)
(* calls on its own variables; a caller of the book (from when the driver  *)
(* is done) or of a single Record makes any call through the variable r,   *)
(* with arguments from its inputs.                                         *)
(***************************************************************************)
VarNames == {"john_record", "jane_record", "john", "r"}

Call(op, v, args) == [op |-> op, v |-> v, args |-> args]

DriverLines ==
    <<"L138", "L139", "L140", "L142", "L144", "L145", "L146", "L148",
      "L151", "L152", "L154", "L156", "L157", "L158">>

DriverCall ==
    [l \in {DriverLines[i] : i \in 1..Len(DriverLines)} |->
        CASE l = "L138" -> Call("Record", "john_record", <<"John">>)
          [] l = "L139" -> Call("add_phone", "john_record", <<"1234567890">>)
          [] l = "L140" -> Call("add_phone", "john_record", <<"5555555555">>)
          [] l = "L142" -> Call("add_record", "john_record", <<>>)
          [] l = "L144" -> Call("Record", "jane_record", <<"Jane">>)
          [] l = "L145" -> Call("add_phone", "jane_record", <<"9876543210">>)
          [] l = "L146" -> Call("add_record", "jane_record", <<>>)
          [] l = "L148" -> Call("print_all", "book", <<>>)
          [] l = "L151" -> Call("find", "john", <<"John">>)
          [] l = "L152" -> Call("edit_phone", "john", <<"1234567890", "1112223333">>)
          [] l = "L154" -> Call("print", "john", <<>>)
          [] l = "L156" -> Call("find_phone", "john", <<"5555555555">>)
          [] l = "L157" -> Call("print_found", "john", <<>>)
          [] l = "L158" -> Call("delete", "book", <<"Jane">>)]

PhoneCalls(inputs) ==
    {Call(op, "r", <<p>>) :
        op \in {"add_phone", "remove_phone", "find_phone"}, p \in inputs}
    \cup {Call("edit_phone", "r", <<p, q>>) : p \in inputs, q \in inputs}

RecordCalls ==
    {Call("Record", "r", <<n>>) : n \in NameInputs} \cup PhoneCalls(PhoneInputs)

BookCalls ==
    {Call("Record", "r", <<n>>) : n \in NameInputs}
    \cup PhoneCalls(BookPhoneInputs)
    \cup {Call("add_record", "r", <<>>)}
    \cup {Call("find", "r", <<n>>) : n \in NameInputs}
    \cup {Call("delete", "book", <<n>>) : n \in NameInputs}

\* The calls of operation op that the caller whose turn it is may make now.
Calls(op) ==
    CASE pc = "book" -> {c \in BookCalls : c.op = op}
      [] pc = "record" -> {c \in RecordCalls : c.op = op}
      [] pc \in DOMAIN DriverCall /\ DriverCall[pc].op = op -> {DriverCall[pc]}
      [] OTHER -> {}

\* How many phones the caller lets a Record have (the driver: as many as it adds).
WithinBound(phones) ==
    /\ pc = "record" => Len(phones) <= MaxPhones
    /\ pc = "book" => Len(phones) <= MaxBookPhones

\* The driver's next line; an uncaught ValueError ends the script.
NextPc(raised) ==
    IF pc \notin DOMAIN DriverCall THEN pc
    ELSE IF raised THEN "crashed"
    ELSE LET i == CHOOSE k \in 1..Len(DriverLines) : DriverLines[k] = pc IN
         IF i = Len(DriverLines) THEN "book" ELSE DriverLines[i + 1]

(***************************************************************************)
(* The heap.  A Record object that neither the book nor a variable refers  *)
(* to is freed when the call that dropped it returns.  An id is an         *)
(* address and carries no meaning, so the live objects are renumbered in   *)
(* the order the book and then the variables reach them.                   *)
(***************************************************************************)
VarOrder == <<"john_record", "jane_record", "john", "r">>

Range(seq) == {seq[i] : i \in 1..Len(seq)}

RECURSIVE FirstOccurrences(_)
FirstOccurrences(seq) ==
    IF Len(seq) = 0 THEN <<>>
    ELSE LET front == FirstOccurrences(SubSeq(seq, 1, Len(seq) - 1))
             x == seq[Len(seq)]
         IN IF x \in Range(front) THEN front ELSE Append(front, x)

RECURSIVE VarIds(_, _)
VarIds(e, k) ==
    IF k > Len(VarOrder) THEN <<>>
    ELSE (IF e[VarOrder[k]] = None THEN <<>> ELSE <<e[VarOrder[k]].id>>)
         \o VarIds(e, k + 1)

\* the ids of the live objects, in the order they are reached
Live(d, e) ==
    FirstOccurrences([i \in 1..Len(d) |-> d[i].value.id] \o VarIds(e, 1))

Renumber(live, ref) ==
    IF ref = None THEN None
    ELSE Ref(CHOOSE k \in 1..Len(live) : live[k] = ref.id)

Renumbered(live, h, d, e) ==
    [heap |-> [k \in Ids |-> IF k <= Len(live) THEN h[live[k]] ELSE NoRec],
     data |-> [i \in 1..Len(d) |->
                 [key |-> d[i].key, value |-> Renumber(live, d[i].value)]],
     env |-> [v \in VarNames |-> Renumber(live, e[v])]]

\* (the bound variable makes TLC compute the live list once)
Collect(h, d, e) ==
    CHOOSE after \in {Renumbered(live, h, d, e) : live \in {Live(d, e)}} : TRUE

FreeIds(h) == {i \in Ids : h[i] = NoRec}

NameOf(h, ref) == h[ref.id].name.value

Before == [heap |-> heap, data |-> data, env |-> env]

\* What every call leaves behind.
Return(c, raised, ret, h, d, e, lk) ==
    \E after \in {Collect(h, d, e)} :
    /\ heap' = after.heap
    /\ data' = after.data
    /\ env' = after.env
    /\ last' = [op |-> c.op, v |-> c.v, args |-> c.args, at |-> pc,
                raised |-> raised, ret |-> ret, pre |-> Before]
    /\ linked' = lk
    /\ pc' = NextPc(raised)

\* The same for a call "v = ..." that returns a reference (or None).
ReturnRef(c, h, d, e, lk) ==
    \E after \in {Collect(h, d, e)} :
    /\ heap' = after.heap
    /\ data' = after.data
    /\ env' = after.env
    /\ last' = [op |-> c.op, v |-> c.v, args |-> c.args, at |-> pc,
                raised |-> FALSE, ret |-> after.env[c.v], pre |-> Before]
    /\ linked' = lk
    /\ pc' = NextPc(FALSE)

Phones(e, h, v) == h[e[v].id].phones

SetPhones(h, e, v, phones) == [h EXCEPT ![e[v].id].phones = phones]

\* the variables that refer to a Record named name
VarsNamed(e, h, name) ==
    {w \in VarNames : e[w] # None /\ NameOf(h, e[w]) = name}

(***************************************************************************)
(* The calls.                                                              *)
(***************************************************************************)
\* v = Record(name)
NewRecord ==
    \E c \in Calls("Record") :
        LET n == Name(c.args[1]) IN
        /\ IF n.raised
           THEN Return(c, TRUE, None, heap, data, env, linked)
           ELSE /\ FreeIds(heap) # {}
                /\ LET i == CHOOSE k \in FreeIds(heap) :
                                \A j \in FreeIds(heap) : k <= j
                   IN ReturnRef(c,
                          [heap EXCEPT ![i] = [name |-> n.obj, phones |-> <<>>]],
                          data, [env EXCEPT ![c.v] = Ref(i)], linked \ {c.v})
        /\ UNCHANGED <<found_phone, out>>

\* v.add_phone(phone)
AddPhone ==
    \E c \in Calls("add_phone") :
        /\ env[c.v] # None
        /\ LET res == add_phone(Phones(env, heap, c.v), c.args[1]) IN
           /\ WithinBound(res.phones)
           /\ Return(c, res.raised, res.ret,
                     SetPhones(heap, env, c.v, res.phones), data, env, linked)
        /\ UNCHANGED <<found_phone, out>>

\* v.remove_phone(phone)
RemovePhone ==
    \E c \in Calls("remove_phone") :
        /\ env[c.v] # None
        /\ LET res == remove_phone(Phones(env, heap, c.v), c.args[1]) IN
           Return(c, res.raised, res.ret,
                  SetPhones(heap, env, c.v, res.phones), data, env, linked)
        /\ UNCHANGED <<found_phone, out>>

\* v.edit_phone(old_phone, new_phone)
EditPhone ==
    \E c \in Calls("edit_phone") :
        /\ env[c.v] # None
        /\ LET res == edit_phone(Phones(env, heap, c.v), c.args[1], c.args[2]) IN
           Return(c, res.raised, res.ret,
                  SetPhones(heap, env, c.v, res.phones), data, env, linked)
        /\ UNCHANGED <<found_phone, out>>

\* v.find_phone(phone); line 156 keeps the result in found_phone
FindPhone ==
    \E c \in Calls("find_phone") :
        /\ env[c.v] # None
        /\ LET res == find_phone(Phones(env, heap, c.v), c.args[1]) IN
           /\ Return(c, res.raised, res.ret,
                     SetPhones(heap, env, c.v, res.phones), data, env, linked)
           /\ found_phone' = IF pc = "L156" THEN res.ret ELSE found_phone
        /\ UNCHANGED out

\* book.add_record(v)
AddRecord ==
    \E c \in Calls("add_record") :
        /\ env[c.v] # None
        /\ LET res == add_record(data, heap, env[c.v]) IN
           Return(c, FALSE, None, res.heap, res.data, env,
                  (linked \ VarsNamed(env, heap, NameOf(heap, env[c.v]))) \cup {c.v})
        /\ UNCHANGED <<found_phone, out>>

\* v = book.find(name)
Find ==
    \E c \in Calls("find") :
        LET rec == find(data, c.args[1]) IN
        /\ ReturnRef(c, heap, data, [env EXCEPT ![c.v] = rec],
                     IF rec = None THEN linked \ {c.v} ELSE linked \cup {c.v})
        /\ UNCHANGED <<found_phone, out>>

\* book.delete(name)
Delete ==
    \E c \in Calls("delete") :
        /\ Return(c, FALSE, None, heap, delete(data, c.args[1]), env,
                  linked \ VarsNamed(env, heap, c.args[1]))
        /\ UNCHANGED <<found_phone, out>>

\* lines 148-149: for name, record in book.data.items(): print(record)
PrintAll ==
    \E c \in Calls("print_all") :
        /\ out' = out \o [i \in 1..Len(data) |-> RecordStr(heap[data[i].value.id])]
        /\ Return(c, FALSE, None, heap, data, env, linked)
        /\ UNCHANGED found_phone

\* line 154: print(john)
PrintRecord ==
    \E c \in Calls("print") :
        /\ env[c.v] # None
        /\ out' = Append(out, RecordStr(heap[env[c.v].id]))
        /\ Return(c, FALSE, None, heap, data, env, linked)
        /\ UNCHANGED found_phone

\* line 157: print(f"{john.name}: {found_phone}")
PrintFound ==
    \E c \in Calls("print_found") :
        /\ env[c.v] # None
        /\ out' = Append(out,
                    FieldStr(heap[env[c.v].id].name) \o ": "
                    \o (IF found_phone = None THEN "None" ELSE FieldStr(found_phone)))
        /\ Return(c, FALSE, None, heap, data, env, linked)
        /\ UNCHANGED found_phone

(***************************************************************************)
(* Strings for Phone(value) alone: every string of length 1..MaxStrLen     *)
(* that repeats one character except for at most one place, the empty      *)
(* string, and the strings the documentation gives as examples.            *)
(***************************************************************************)
MaxStrLen == 11

FillChars == {"1", SuperscriptTwo}
OddChars == {"0", "7", "a", SuperscriptTwo, " ", "-", "+"}

PhoneStrings ==
    {Repeat(f, k - 1) \o x \o Repeat(f, n - k) :
        <<n, k, f, x>> \in {t \in (1..MaxStrLen) \X (1..MaxStrLen) \X FillChars \X OddChars :
                               t[2] <= t[1]}}
    \cup {"", "1234567890", "12345", "12345678ab", "123456789012"}

\* p = Phone(value), on no Record
ConstructPhone ==
    \E value \in PhoneStrings :
        LET p == Phone(value) IN
        /\ pc = "phone"
        /\ last' = [op |-> "Phone", v |-> "book", args |-> <<value>>, at |-> pc,
                    raised |-> p.raised, ret |-> p.obj, pre |-> Before]
        /\ UNCHANGED <<heap, data, env, found_phone, out, pc, linked>>

(***************************************************************************)
(* Spec: the classes in use on a fresh AddressBook().                      *)
(* SpecDemo: the script task01.py from line 138 on, and the classes in use *)
(* on its book once it has run.                                            *)
(***************************************************************************)
NoCall ==
    [op |-> "none", v |-> "book", args |-> <<>>, at |-> "L136",
     raised |-> FALSE, ret |-> None,
     pre |-> [heap |-> [i \in Ids |-> NoRec], data |-> <<>>,
              env |-> [v \in VarNames |-> None]]]

InitState ==
    /\ heap = [i \in Ids |-> NoRec]
    /\ data = <<>>
    /\ env = [v \in VarNames |-> None]
    /\ found_phone = None
    /\ out = <<>>
    /\ last = NoCall
    /\ linked = {}

Init == InitState /\ pc = "book"

InitRecord == InitState /\ pc = "record"

InitPhone == InitState /\ pc = "phone"

InitDemo == InitState /\ pc = "L138"

Next ==
    \/ NewRecord
    \/ AddPhone
    \/ RemovePhone
    \/ EditPhone
    \/ FindPhone
    \/ AddRecord
    \/ Find
    \/ Delete

NextDemo ==
    \/ Next
    \/ PrintAll
    \/ PrintRecord
    \/ PrintFound

Spec == Init /\ [][Next]_vars

\* A Record in use on its own, never put in a book.
NextRecord ==
    \/ NewRecord
    \/ AddPhone
    \/ RemovePhone
    \/ EditPhone
    \/ FindPhone

SpecRecord == InitRecord /\ [][NextRecord]_vars

\* Phone(value) applied to each string of PhoneStrings.
SpecPhone == InitPhone /\ [][ConstructPhone]_vars

SpecDemo == InitDemo /\ [][NextDemo]_vars

(***************************************************************************)
(* What the properties below speak of.                                     *)
(***************************************************************************)
PhoneOps == {"add_phone", "remove_phone", "edit_phone", "find_phone"}

\* the phone list of the Record the last call was made on, before and after
PrePhones == last.pre.heap[last.pre.env[last.v].id].phones
PostPhones == heap[env[last.v].id].phones

Returned(value) == ~last.raised /\ last.ret = value

Count(phones, x) == Cardinality({i \in 1..Len(phones) : phones[i].value = x})

Holds(phones, x) == \E i \in 1..Len(phones) : phones[i].value = x

TenDecimalDigits(str) ==
    Len(str) = 10 /\ \A i \in 1..Len(str) : CharAt(str, i) \in AsciiDigits

\* C1 (as claimed): Phone(p) succeeds, storing p verbatim, iff p has length
\* 10 and every character is a decimal digit; otherwise it raises and no
\* Phone is produced.
C1_PhoneIffTenDecimalDigits ==
    last.op = "Phone" =>
        /\ ~last.raised <=> TenDecimalDigits(last.args[1])
        /\ ~last.raised => last.ret = Field(last.args[1])
        /\ last.raised => last.ret = None

\* C2 (as claimed): whenever edit_phone(old, new) returns true, right after
\* it find_phone(new) returns a Phone of value new and find_phone(old)
\* returns none.
C2_EditThenOldIsGone ==
    (last.op = "edit_phone" /\ Returned(TRUE)) =>
        /\ find_phone(PostPhones, last.args[2]).ret = Field(last.args[2])
        /\ find_phone(PostPhones, last.args[1]).ret = None

\* C2 (amended): whenever edit_phone(old, new) returns true, right after it
\* find_phone(new) returns a Phone of value new; and find_phone(old) returns
\* none if old # new and the list held exactly one phone of value old.
C2_EditThenFind ==
    (last.op = "edit_phone" /\ Returned(TRUE)) =>
        /\ find_phone(PostPhones, last.args[2]).ret = Field(last.args[2])
        /\ (last.args[1] # last.args[2] /\ Count(PrePhones, last.args[1]) = 1)
              => find_phone(PostPhones, last.args[1]).ret = None

C2_Witness ==
    /\ last.op = "edit_phone" /\ Returned(TRUE)
    /\ last.args[1] # last.args[2]
    /\ Count(PrePhones, last.args[1]) = 1
    /\ Len(PrePhones) > 1

RECURSIVE RemoveReturns(_, _, _)
RemoveReturns(phones, x, k) ==
    IF k = 0 THEN <<>>
    ELSE LET res == remove_phone(phones, x) IN
         <<res.ret>> \o RemoveReturns(res.phones, x, k - 1)

C9_EditReplacesFirstMatch ==
    (last.op = "edit_phone" /\ Returned(TRUE)) =>
        /\ Len(PostPhones) = Len(PrePhones)
        /\ \E i \in 1..Len(PrePhones) :
              /\ PrePhones[i].value = last.args[1]
              /\ \A j \in 1..(i - 1) : PrePhones[j].value # last.args[1]
              /\ PostPhones[i] = Field(last.args[2])
              /\ \A j \in 1..Len(PrePhones) : j # i => PostPhones[j] = PrePhones[j]

C9_Witness ==
    /\ last.op = "edit_phone" /\ Returned(TRUE)
    /\ last.args[1] # last.args[2]
    /\ Count(PrePhones, last.args[1]) > 1
    /\ Holds(PostPhones, last.args[1])

\* the Record the last call was made with, as it was before the call
PreRecord == last.pre.heap[last.pre.env[last.v].id]

\* the entry the book held under name before the last call (or None)
PreEntry(name) == find(last.pre.data, name)

\* C5: after add_record(rec), find(rec.name.value) returns that record, with
\* the name, the phones and so the string form rec had; after delete(n),
\* find(n) returns none, whether n was present or not; neither raises.
C5_AddFindDelete ==
    /\ last.op = "add_record" =>
          /\ ~last.raised
          /\ find(data, PreRecord.name.value) = env[last.v]
          /\ heap[env[last.v].id] = PreRecord
          /\ RecordStr(heap[find(data, PreRecord.name.value).id])
                = RecordStr(PreRecord)
    /\ last.op = "delete" =>
          /\ ~last.raised
          /\ find(data, last.args[1]) = None

C5_Witness ==
    /\ last.op = "delete"
    /\ PreEntry(last.args[1]) # None
    /\ Len(data) > 0

\* C6: add_record of a Record named n over a different Record held under n
\* raises nothing; find(n) then returns the new Record with its own phones
\* only; the number of entries is unchanged and so is every other entry.
C6_LastWriteWins ==
    (/\ last.op = "add_record"
     /\ PreEntry(PreRecord.name.value) # None
     /\ PreEntry(PreRecord.name.value) # last.pre.env[last.v])
    => /\ ~last.raised
       /\ find(data, PreRecord.name.value) = env[last.v]
       /\ heap[env[last.v].id].phones = PreRecord.phones
       /\ Len(data) = Len(last.pre.data)
       /\ \A i \in 1..Len(last.pre.data) :
             last.pre.data[i].key # PreRecord.name.value =>
                /\ data[i].key = last.pre.data[i].key
                /\ heap[data[i].value.id]
                      = last.pre.heap[last.pre.data[i].value.id]

C6_Witness ==
    /\ last.op = "add_record"
    /\ PreEntry(PreRecord.name.value) # None
    /\ PreEntry(PreRecord.name.value) # last.pre.env[last.v]
    /\ Len(last.pre.heap[PreEntry(PreRecord.name.value).id].phones) > 0
    /\ last.pre.heap[PreEntry(PreRecord.name.value).id].phones # PreRecord.phones
    /\ Len(data) > 1

\* C7: a variable that holds the reference find(n) returned, or the one
\* add_record was given, with no add_record or delete for n since, names
\* the book's own Record: find(n) yields that Record, with the phone list
\* every add_phone, remove_phone and edit_phone through the variable left.
C7_SharedReference ==
    \A v \in linked :
        /\ env[v] # None
        /\ find(data, NameOf(heap, env[v])) # None
        /\ heap[find(data, NameOf(heap, env[v])).id].phones
              = Phones(env, heap, v)
        /\ (last.op \in PhoneOps /\ last.v = v) =>
              Phones(env, heap, v)
                 = CASE last.op = "add_phone" ->
                          add_phone(PrePhones, last.args[1]).phones
                     [] last.op = "remove_phone" ->
                          remove_phone(PrePhones, last.args[1]).phones
                     [] last.op = "edit_phone" ->
                          edit_phone(PrePhones, last.args[1], last.args[2]).phones
                     [] last.op = "find_phone" -> PrePhones

C7_Witness ==
    /\ last.op \in {"add_phone", "remove_phone", "edit_phone"}
    /\ last.v \in linked
    /\ PostPhones # PrePhones
    /\ heap[find(data, NameOf(heap, env[last.v])).id].phones = PostPhones

\* C8: the driver prints John's and Jane's lines in insertion order, John's
\* line again after the edit, then "John: 5555555555"; when it ends Jane is
\* gone from the book and John is still there.
C8_Demonstration ==
    /\ Len(out) >= 1 => out[1] = "Contact name: John, phones: 1234567890; 5555555555"
    /\ Len(out) >= 2 => out[2] = "Contact name: Jane, phones: 9876543210"
    /\ Len(out) >= 3 => out[3] = "Contact name: John, phones: 1112223333; 5555555555"
    /\ Len(out) >= 4 => out[4] = "John: 5555555555"
    /\ Len(out) <= 4
    /\ pc = "L151" => Len(out) = 2
    /\ pc = "L156" => Len(out) = 3
    /\ pc = "L158" => Len(out) = 4
    /\ pc = "book" => Len(out) = 4
    /\ pc # "crashed"
    /\ last.at = "L158" =>
          /\ pc = "book"
          /\ find(data, "Jane") = None
          /\ find(data, "John") # None
          /\ RecordStr(heap[find(data, "John").id])
                = "Contact name: John, phones: 1112223333; 5555555555"

C8_Witness ==
    /\ last.at = "L158"
    /\ Len(out) = 4
    /\ Len(data) = 1

\* C10 (as claimed): in every reachable state every stored phone is exactly
\* 10 decimal digits and every Record's name is non-empty; an add_phone that
\* raises leaves the phone list unchanged.
C10_StoredPhonesAreTenDecimalDigits ==
    /\ \A i \in Ids :
          heap[i] # NoRec =>
             /\ heap[i].name.value # ""
             /\ \A k \in 1..Len(heap[i].phones) :
                   TenDecimalDigits(heap[i].phones[k].value)
    /\ (last.op = "add_phone" /\ last.raised) => PostPhones = PrePhones

====
